---- MODULE Spec2Model ----
(***************************************************************************)
(* A model of sprockets_logging: the process-wide registry _context of     *)
(* contextvars.ContextVar cells, set_context, the two formatters that      *)
(* iterate the registry, and the pure configuration builder config with    *)
(* _strtobool.                                                             *)
(*                                                                         *)
(* Logical tasks are threads (each starts with an empty                    *)
(* contextvars.Context) and child operations (started with a copy of the   *)
(* parent's Context).  Tasks are preempted between the statements of       *)
(* set_context and between the iterations of a formatter's loop.           *)
(***************************************************************************)
EXTENDS Integers, Sequences, FiniteSets, TLC

VARIABLES
    _context,   \* the registry dict, in insertion order: <<[key, cvar], ...>>
    cvarName,   \* the ContextVar objects created so far: cvarName[c] is c's name
    ctx,        \* ctx[t]: task t's contextvars.Context, a mapping cvar -> value
    pc,         \* pc[t]: where task t stands
    frame,      \* frame[t]: the locals of the call task t is in
    out,        \* out[t]: what task t's most recent call returned or raised
    parent,     \* parent[t]: the task whose Context t was started with
    lastSet,    \* history: lastSet[t][k], the value t most recently set for k
    inherited,  \* history: inherited[t][k], lastSet of t's parent when t started
    calls,      \* the calls begun so far, by all tasks
    environ,    \* os.environ: DEBUG, ENVIRONMENT, LOG_FORMAT
    cfgArgs,    \* the arguments of the most recent call of config
    cfgResult   \* what that call returned or raised

ctxVars == <<_context, cvarName, ctx, pc, frame, out, parent, lastSet, inherited,
            calls>>
cfgVars == <<environ, cfgArgs, cfgResult>>
vars == <<_context, cvarName, ctx, pc, frame, out, parent, lastSet, inherited, calls,
          environ, cfgArgs, cfgResult>>

-----------------------------------------------------------------------------
(* Bounds *)

MaxCalls == 3

Threads == {"T1", "T2"}
Children == {"C1"}
Parents == {"T1"}
Tasks == Threads \cup Children
Keys == {"req_id", "user"}

\* The non-empty values each task passes to set_context: disjoint between tasks.
OwnValues(t) ==
    CASE t = "T1" -> {"a1", "a2"}
      [] t = "T2" -> {"b1"}
      [] OTHER    -> {"c1"}

-----------------------------------------------------------------------------
(* Python values *)

\* An optional value: None, or a value v.
None == <<>>
Some(v) == <<v>>

\* A variant that tests "value is not None": '' counts as a value.
TruthyNotNone(v) == v # None

\* bool(value) of an optional string: None and '' are false.
Truthy(v) == v # None /\ v[1] # ""

\* dict: key in d, d[key], d[key] = c (a present key keeps its place).
DictHas(d, k) == \E i \in 1..Len(d) : d[i].key = k

DictIndex(d, k) == CHOOSE i \in 1..Len(d) : d[i].key = k

DictGet(d, k) == d[DictIndex(d, k)].cvar

DictSet(d, k, c) ==
    IF DictHas(d, k)
    THEN [d EXCEPT ![DictIndex(d, k)].cvar = c]
    ELSE Append(d, [key |-> k, cvar |-> c])

\* The empty dict, and context[key] = value.
EmptyDict == [k \in {} |-> ""]

DictPut(m, k, v) == [x \in DOMAIN m \cup {k} |-> IF x = k THEN v ELSE m[x]]

\* A variant that keeps one value per cell for the whole process: the value
\* is found whichever task's Context holds it.
CvarGetShared(c, cx) ==
    IF \E u \in Tasks : c \in DOMAIN ctx[u]
    THEN Some(ctx[CHOOSE u \in Tasks : c \in DOMAIN ctx[u]][c])
    ELSE None

\* ContextVar(key, default=None).get() in the Context cx.
CvarGet(c, cx) == IF c \in DOMAIN cx THEN Some(cx[c]) ELSE None

\* ContextVar.set(value) in the Context cx.
CvarSet(c, v, cx) == [x \in DOMAIN cx \cup {c} |-> IF x = c THEN v ELSE cx[x]]

\* ' '.join(parts)
RECURSIVE Join(_)
Join(parts) ==
    IF Len(parts) = 0 THEN ""
    ELSE IF Len(parts) = 1 THEN parts[1]
    ELSE parts[1] \o " " \o Join(Tail(parts))

\* logging.Formatter.format(record): the base line.
BaseLine == "2020-01-01 00:00:00,000 INFO     root abc"

\* f'[{key} {value}]'
Token(key, value) == "[" \o key \o " " \o value \o "]"

-----------------------------------------------------------------------------
(* The state after import *)

NoFrame == [key |-> "", value |-> "", parts |-> <<>>, context |-> EmptyDict,
            used |-> 0, pos |-> 0]

NoResult == [status |-> "none", fmt |-> "", line |-> "", context |-> None]

CanCall(t) == pc[t] = "idle" /\ calls < MaxCalls

-----------------------------------------------------------------------------
(* A child operation: started by an idle task with a copy of its Context *)

StartChild(p, c) ==
    /\ pc[p] = "idle"
    /\ pc[c] = "unstarted"
    /\ pc' = [pc EXCEPT ![c] = "idle"]
    /\ ctx' = [ctx EXCEPT ![c] = ctx[p]]
    /\ parent' = [parent EXCEPT ![c] = p]
    /\ lastSet' = [lastSet EXCEPT ![c] = lastSet[p]]
    /\ inherited' = [inherited EXCEPT ![c] = lastSet[p]]
    /\ UNCHANGED <<_context, cvarName, frame, out, calls>>
    /\ UNCHANGED cfgVars

-----------------------------------------------------------------------------
(* set_context(key, value) *)

\* line 22: if key not in _context
set_context_L22(t, key, value) ==
    /\ CanCall(t)
    /\ calls' = calls + 1
    /\ frame' = [frame EXCEPT ![t] = [NoFrame EXCEPT !.key = key, !.value = value]]
    /\ out' = [out EXCEPT ![t] = NoResult]
    /\ pc' = [pc EXCEPT ![t] = IF DictHas(_context, key) THEN "set_L25" ELSE "set_L23"]
    /\ UNCHANGED <<_context, cvarName, ctx, parent, lastSet, inherited>>
    /\ UNCHANGED cfgVars

\* line 23: _context[key] = contextvars.ContextVar(key, default=None)
set_context_L23(t) ==
    /\ pc[t] = "set_L23"
    /\ cvarName' = Append(cvarName, frame[t].key)
    /\ _context' = DictSet(_context, frame[t].key, Len(cvarName) + 1)
    /\ pc' = [pc EXCEPT ![t] = "set_L25"]
    /\ UNCHANGED <<ctx, frame, out, parent, lastSet, inherited, calls>>
    /\ UNCHANGED cfgVars

\* line 25: _context[key].set(value)
set_context_L25(t) ==
    /\ pc[t] = "set_L25"
    /\ ctx' = [ctx EXCEPT ![t] =
                 CvarSet(DictGet(_context, frame[t].key), frame[t].value, @)]
    /\ lastSet' = [lastSet EXCEPT ![t][frame[t].key] = Some(frame[t].value)]
    /\ pc' = [pc EXCEPT ![t] = "idle"]
    /\ frame' = [frame EXCEPT ![t] = NoFrame]
    /\ UNCHANGED <<_context, cvarName, out, parent, inherited, calls>>
    /\ UNCHANGED cfgVars

-----------------------------------------------------------------------------
(* The iteration of _context.items() *)

\* iter(_context.items()): the iterator remembers the dict's size.
\* next(): RuntimeError if the size changed, StopIteration at the end,
\* else the item at the iterator's position.
IterRaises(f) == f.used # Len(_context)

IterDone(f) == ~IterRaises(f) /\ f.pos >= Len(_context)

IterItem(f) == _context[f.pos + 1]

RuntimeError == [NoResult EXCEPT !.status = "RuntimeError"]

-----------------------------------------------------------------------------
(* _LogFormatter.format(record) *)

\* lines 30-32: parts = [super().format(record)]; the loop's iterator
_LogFormatter_format_L30(t) ==
    /\ CanCall(t)
    /\ calls' = calls + 1
    /\ frame' = [frame EXCEPT ![t] =
                   [NoFrame EXCEPT !.parts = <<BaseLine>>, !.used = Len(_context)]]
    /\ out' = [out EXCEPT ![t] = NoResult]
    /\ pc' = [pc EXCEPT ![t] = "plain_L32"]
    /\ UNCHANGED <<_context, cvarName, ctx, parent, lastSet, inherited>>
    /\ UNCHANGED cfgVars

\* lines 33-35: the loop body
PlainBody(parts, item, cx) ==
    LET value == CvarGet(item.cvar, cx)
    IN  IF Truthy(value) THEN Append(parts, Token(item.key, value[1])) ELSE parts

\* line 32 (one step of the loop) and line 37
_LogFormatter_format_L32(t) ==
    /\ pc[t] = "plain_L32"
    /\ IF IterRaises(frame[t])
       THEN /\ out' = [out EXCEPT ![t] = [RuntimeError EXCEPT !.fmt = "plain"]]
            /\ pc' = [pc EXCEPT ![t] = "idle"]
            /\ frame' = [frame EXCEPT ![t] = NoFrame]
       ELSE IF IterDone(frame[t])
       THEN /\ out' = [out EXCEPT ![t] =
                         [status |-> "ok", fmt |-> "plain",
                          line |-> Join(frame[t].parts), context |-> None]]
            /\ pc' = [pc EXCEPT ![t] = "idle"]
            /\ frame' = [frame EXCEPT ![t] = NoFrame]
       ELSE /\ frame' = [frame EXCEPT
                           ![t].parts = PlainBody(@, IterItem(frame[t]), ctx[t]),
                           ![t].pos = @ + 1]
            /\ UNCHANGED <<out, pc>>
    /\ UNCHANGED <<_context, cvarName, ctx, parent, lastSet, inherited, calls>>
    /\ UNCHANGED cfgVars

-----------------------------------------------------------------------------
(* _JSONFormatter.format(record) *)

\* lines 42-43: context = {}; the loop's iterator
_JSONFormatter_format_L42(t) ==
    /\ CanCall(t)
    /\ calls' = calls + 1
    /\ frame' = [frame EXCEPT ![t] = [NoFrame EXCEPT !.used = Len(_context)]]
    /\ out' = [out EXCEPT ![t] = NoResult]
    /\ pc' = [pc EXCEPT ![t] = "json_L43"]
    /\ UNCHANGED <<_context, cvarName, ctx, parent, lastSet, inherited>>
    /\ UNCHANGED cfgVars

\* lines 44-46: the loop body
JSONBody(context, item, cx) ==
    LET value == CvarGet(item.cvar, cx)
    IN  IF Truthy(value) THEN DictPut(context, item.key, value[1]) ELSE context

\* lines 47-49: record.context is set only to a non-empty dict; the record's
\* attribute is otherwise left to jsonscribe.AttributeSetter's default, None.
RecordContext(context) == IF DOMAIN context # {} THEN Some(context) ELSE None

\* line 43 (one step of the loop) and lines 47-49
_JSONFormatter_format_L43(t) ==
    /\ pc[t] = "json_L43"
    /\ IF IterRaises(frame[t])
       THEN /\ out' = [out EXCEPT ![t] = [RuntimeError EXCEPT !.fmt = "json"]]
            /\ pc' = [pc EXCEPT ![t] = "idle"]
            /\ frame' = [frame EXCEPT ![t] = NoFrame]
       ELSE IF IterDone(frame[t])
       THEN /\ out' = [out EXCEPT ![t] =
                         [status |-> "ok", fmt |-> "json", line |-> "",
                          context |-> RecordContext(frame[t].context)]]
            /\ pc' = [pc EXCEPT ![t] = "idle"]
            /\ frame' = [frame EXCEPT ![t] = NoFrame]
       ELSE /\ frame' = [frame EXCEPT
                           ![t].context = JSONBody(@, IterItem(frame[t]), ctx[t]),
                           ![t].pos = @ + 1]
            /\ UNCHANGED <<out, pc>>
    /\ UNCHANGED <<_context, cvarName, ctx, parent, lastSet, inherited, calls>>
    /\ UNCHANGED cfgVars

-----------------------------------------------------------------------------
(* The formatters' loops run to completion on a registry d in a Context cx *)

RECURSIVE PlainLoop(_, _, _)
PlainLoop(parts, d, cx) ==
    IF d = <<>> THEN parts
    ELSE PlainLoop(PlainBody(parts, Head(d), cx), Tail(d), cx)

\* _LogFormatter.format
FormatPlain(d, cx) == Join(PlainLoop(<<BaseLine>>, d, cx))

RECURSIVE JSONLoop(_, _, _)
JSONLoop(context, d, cx) ==
    IF d = <<>> THEN context
    ELSE JSONLoop(JSONBody(context, Head(d), cx), Tail(d), cx)

\* _JSONFormatter.format: the record's context attribute
FormatJSON(d, cx) == RecordContext(JSONLoop(EmptyDict, d, cx))

-----------------------------------------------------------------------------
(* Strings whose characters matter are sequences of characters *)

Whitespace == {" ", "\t", "\n", "\r"}

UpperCase == <<"A", "B", "C", "D", "E", "F", "G", "H", "I", "J", "K", "L", "M",
               "N", "O", "P", "Q", "R", "S", "T", "U", "V", "W", "X", "Y", "Z">>

LowerCase == <<"a", "b", "c", "d", "e", "f", "g", "h", "i", "j", "k", "l", "m",
               "n", "o", "p", "q", "r", "s", "t", "u", "v", "w", "x", "y", "z">>

LowerChar(c) ==
    IF \E i \in 1..Len(UpperCase) : UpperCase[i] = c
    THEN LowerCase[CHOOSE i \in 1..Len(UpperCase) : UpperCase[i] = c]
    ELSE c

\* str.lower()
Lower(str) == [i \in 1..Len(str) |-> LowerChar(str[i])]

RECURSIVE LStrip(_)
LStrip(str) ==
    IF str # <<>> /\ Head(str) \in Whitespace THEN LStrip(Tail(str)) ELSE str

RECURSIVE RStrip(_)
RStrip(str) ==
    IF str # <<>> /\ str[Len(str)] \in Whitespace
    THEN RStrip(SubSeq(str, 1, Len(str) - 1))
    ELSE str

\* str.strip()
Strip(str) == RStrip(LStrip(str))

-----------------------------------------------------------------------------
(* _strtobool(value) *)

FalseWords == {<<"0">>, <<"n">>, <<"n", "o">>, <<"f", "a", "l", "s", "e">>}

TrueWords == {<<"1">>, <<"y">>, <<"y", "e", "s">>, <<"t", "r", "u", "e">>}

\* A variant that compares the value as given.
NormalizeVerbatim(value) == value

\* line 157: value = value.strip().lower()
Normalize(value) == Lower(Strip(value))

Returned(v) == [raised |-> FALSE, value |-> v, message |-> ""]

Raised(msg) == [raised |-> TRUE, value |-> FALSE, message |-> msg]

\* value is None or a string; "not value" holds of None and of ''.
_strtobool(value) ==
    IF value = None \/ value[1] = <<>> THEN Returned(FALSE)
    ELSE LET v == Normalize(value[1])
         IN  IF v \in FalseWords THEN Returned(FALSE)
             ELSE IF v \in TrueWords THEN Returned(TRUE)
             ELSE Raised("cannot determine bool: \"{value}\"")

-----------------------------------------------------------------------------
(* config(level, use_jsonscribe) *)

logging_DEBUG == 10
logging_INFO == 20

_JSONSCRIBE_ENVS == {"testing", "staging", "production"}

LogFormatMessage == "LOG_FORMAT may be either \"json\" or \"plain\""

\* os.environ.get(name, default)
EnvironGet(env, name, default) == IF env[name] = None THEN default ELSE env[name]

\* lines 69-71
ResolveLevel(level, env) ==
    IF level = None
    THEN LET debug == _strtobool(EnvironGet(env, "DEBUG", Some(<<>>)))
         IN  IF debug.raised THEN debug
             ELSE Returned(IF debug.value THEN logging_DEBUG ELSE logging_INFO)
    ELSE Returned(level[1])

\* A variant that reads ENVIRONMENT only.
ResolveFormatFromEnvironment(use_jsonscribe, env) ==
    IF use_jsonscribe = None
    THEN LET environment == EnvironGet(env, "ENVIRONMENT", None)
         IN  Returned(environment # None /\ environment[1] \in _JSONSCRIBE_ENVS)
    ELSE Returned(use_jsonscribe[1])

\* A variant that takes every LOG_FORMAT other than 'json' for 'plain'.
ResolveFormatLenient(use_jsonscribe, env) ==
    IF use_jsonscribe = None
    THEN LET log_format == EnvironGet(env, "LOG_FORMAT", None)
             environment == EnvironGet(env, "ENVIRONMENT", None)
         IN  IF log_format # None /\ log_format[1] # ""
             THEN Returned(log_format[1] = "json")
             ELSE Returned(environment # None /\ environment[1] \in _JSONSCRIBE_ENVS)
    ELSE Returned(use_jsonscribe[1])

\* lines 73-83
ResolveFormat(use_jsonscribe, env) ==
    IF use_jsonscribe = None
    THEN LET log_format == EnvironGet(env, "LOG_FORMAT", None)
             environment == EnvironGet(env, "ENVIRONMENT", None)
         IN  IF log_format # None /\ log_format[1] # ""
             THEN IF log_format[1] = "plain" THEN Returned(FALSE)
                  ELSE IF log_format[1] = "json" THEN Returned(TRUE)
                  ELSE Raised(LogFormatMessage)
             ELSE Returned(environment # None /\ environment[1] \in _JSONSCRIBE_ENVS)
    ELSE Returned(use_jsonscribe[1])

\* A dict literal with string keys.
Dict1(k1, v1) == [x \in {k1} |-> v1]

\* lines 86-122
JsonscribeConfig(level) ==
    [version |-> 1,
     disable_existing_loggers |-> FALSE,
     incremental |-> FALSE,
     filters |-> [defaultsetter |-> Dict1("()", "jsonscribe.AttributeSetter")],
     formatters |->
        [jsonlines |->
            ("()" :> "sprockets_logging._JSONFormatter")
            @@ ("include_fields" :> <<"name", "levelname", "asctime", "message",
                                      "context", "module", "exc_info">>)
            @@ ("use_loggly_names" :> TRUE)],
     handlers |->
        [console |-> [class |-> "logging.StreamHandler",
                      stream |-> "ext://sys.stdout",
                      filters |-> <<"defaultsetter">>,
                      formatter |-> "jsonlines"]],
     root |-> [level |-> level, handlers |-> <<"console">>]]

\* lines 124-151
ConsoleConfig(level) ==
    [version |-> 1,
     disable_existing_loggers |-> FALSE,
     incremental |-> FALSE,
     formatters |->
        [file |->
            ("()" :> "sprockets_logging._LogFormatter")
            @@ ("format" :> Join(<<"%(asctime)s", "%(levelname)-8s",
                                   "%(name)s", "%(message)s">>))],
     handlers |->
        [console |-> [class |-> "logging.StreamHandler",
                      stream |-> "ext://sys.stdout",
                      level |-> level,
                      formatter |-> "file"]],
     root |-> [level |-> level, handlers |-> <<"console">>]]

NoCall == [status |-> "none", message |-> "", config |-> None]

ValueError(msg) == [status |-> "ValueError", message |-> msg, config |-> None]

\* config(level, use_jsonscribe) under the environment env
config(level, use_jsonscribe, env) ==
    LET lvl == ResolveLevel(level, env)
        use == ResolveFormat(use_jsonscribe, env)
    IN  IF lvl.raised THEN ValueError(lvl.message)
        ELSE IF use.raised THEN ValueError(use.message)
        ELSE [status |-> "ok", message |-> "",
              config |-> Some(IF use.value THEN JsonscribeConfig(lvl.value)
                              ELSE ConsoleConfig(lvl.value))]

-----------------------------------------------------------------------------
(* The environment and the calls of config *)

\* Values of DEBUG, each with the level config is to resolve it to
\* ("error": config is to fail).
DebugValues ==
    { [raw |-> None, expect |-> "INFO"],
      [raw |-> Some(<<>>), expect |-> "INFO"],
      [raw |-> Some(<<"1">>), expect |-> "DEBUG"],
      [raw |-> Some(<<"y">>), expect |-> "DEBUG"],
      [raw |-> Some(<<"Y", "e", "s">>), expect |-> "DEBUG"],
      [raw |-> Some(<<" ", "T", "R", "U", "E", "\n">>), expect |-> "DEBUG"],
      [raw |-> Some(<<"t", "r", "u", "e">>), expect |-> "DEBUG"],
      [raw |-> Some(<<"0">>), expect |-> "INFO"],
      [raw |-> Some(<<"N">>), expect |-> "INFO"],
      [raw |-> Some(<<"\t", "n", "o", " ">>), expect |-> "INFO"],
      [raw |-> Some(<<"F", "a", "l", "s", "e">>), expect |-> "INFO"],
      [raw |-> Some(<<"m", "a", "y", "b", "e">>), expect |-> "error"],
      [raw |-> Some(<<"2">>), expect |-> "error"],
      [raw |-> Some(<<"o", "n">>), expect |-> "error"],
      [raw |-> Some(<<"y", " ", "e", "s">>), expect |-> "error"],
      [raw |-> Some(<<" ">>), expect |-> "error"] }

EnvironmentValues ==
    {None, Some(""), Some("development"), Some("testing"), Some("staging"),
     Some("production"), Some("Production")}

LogFormatValues ==
    {None, Some(""), Some("plain"), Some("json"), Some("pretty"), Some("JSON"),
     Some("jason")}

LevelArgs == {None, Some(0), Some(logging_DEBUG), Some(logging_INFO), Some(40)}

UseJsonscribeArgs == {None, Some(TRUE), Some(FALSE)}

CallConfig(level, use_jsonscribe) ==
    /\ cfgArgs' = [level |-> level, use_jsonscribe |-> use_jsonscribe]
    /\ cfgResult' = config(level, use_jsonscribe, environ)
    /\ UNCHANGED environ
    /\ UNCHANGED ctxVars

-----------------------------------------------------------------------------
(* The specification of the context store and the formatters *)

\* The state after import, before any call
Init ==
    /\ _context = <<>>
    /\ cvarName = <<>>
    /\ ctx = [t \in Tasks |-> EmptyDict]
    /\ pc = [t \in Tasks |-> IF t \in Threads THEN "idle" ELSE "unstarted"]
    /\ frame = [t \in Tasks |-> NoFrame]
    /\ out = [t \in Tasks |-> NoResult]
    /\ parent = [t \in Tasks |-> ""]
    /\ lastSet = [t \in Tasks |-> [k \in Keys |-> None]]
    /\ inherited = [t \in Tasks |-> [k \in Keys |-> None]]
    /\ calls = 0
    /\ environ = [DEBUG |-> None, ENVIRONMENT |-> None, LOG_FORMAT |-> None]
    /\ cfgArgs = [level |-> None, use_jsonscribe |-> None]
    /\ cfgResult = NoCall

Next ==
    \/ \E p \in Parents, c \in Children : StartChild(p, c)
    \/ \E t \in Tasks, k \in Keys :
           \E v \in OwnValues(t) \cup {""} : set_context_L22(t, k, v)
    \/ \E t \in Tasks : set_context_L23(t)
    \/ \E t \in Tasks : set_context_L25(t)
    \/ \E t \in Tasks : _LogFormatter_format_L30(t)
    \/ \E t \in Tasks : _LogFormatter_format_L32(t)
    \/ \E t \in Tasks : _JSONFormatter_format_L42(t)
    \/ \E t \in Tasks : _JSONFormatter_format_L43(t)

Spec == Init /\ [][Next]_vars

\* The specification of the configuration builder: config is called under
\* every environment of the sets above.
ConfigNext ==
    \E level \in LevelArgs, use_jsonscribe \in UseJsonscribeArgs :
        CallConfig(level, use_jsonscribe)

ConfigInit ==
    /\ _context = <<>>
    /\ cvarName = <<>>
    /\ ctx = [t \in Tasks |-> EmptyDict]
    /\ pc = [t \in Tasks |-> IF t \in Threads THEN "idle" ELSE "unstarted"]
    /\ frame = [t \in Tasks |-> NoFrame]
    /\ out = [t \in Tasks |-> NoResult]
    /\ parent = [t \in Tasks |-> ""]
    /\ lastSet = [t \in Tasks |-> [k \in Keys |-> None]]
    /\ inherited = [t \in Tasks |-> [k \in Keys |-> None]]
    /\ calls = 0
    /\ \E d \in DebugValues, e \in EnvironmentValues, f \in LogFormatValues :
           environ = [DEBUG |-> d.raw, ENVIRONMENT |-> e, LOG_FORMAT |-> f]
    /\ cfgArgs = [level |-> None, use_jsonscribe |-> None]
    /\ cfgResult = NoCall

ConfigSpec == ConfigInit /\ [][ConfigNext]_vars

-----------------------------------------------------------------------------
(* What the claims speak of *)

\* What a render by task t reads for key k in the present state.
Resolve(t, k) ==
    IF DictHas(_context, k) THEN CvarGet(DictGet(_context, k), ctx[t]) ELSE None

\* The registered keys, in registration order.
KeyOrder == [i \in 1..Len(_context) |-> _context[i].key]

\* The tokens of the keys of S, in registration order, with the values t last set.
RECURSIVE HistoryTokens(_, _, _)
HistoryTokens(order, S, t) ==
    IF order = <<>> THEN <<>>
    ELSE (IF Head(order) \in S
          THEN <<Token(Head(order), lastSet[t][Head(order)][1])>>
          ELSE <<>>) \o HistoryTokens(Tail(order), S, t)

\* The registered keys whose value last set by t is not empty.
LiveKeys(t) == {k \in Keys : DictHas(_context, k) /\ lastSet[t][k] # None
                                 /\ lastSet[t][k][1] # ""}

HistoryLine(S, t) == Join(<<BaseLine>> \o HistoryTokens(KeyOrder, S, t))

HistoryMapping(S, t) == [k \in S |-> lastSet[t][k][1]]

Rendered(t) == out[t].status = "ok"

Finished(t) == out[t].status \in {"ok", "RuntimeError"}

-----------------------------------------------------------------------------
(* C1: task isolation.  Whatever the interleaving of set_context and        *)
(* formatter steps, every entry of a line or context mapping a task has     *)
(* rendered carries the value that task itself last set for the entry's key *)
(* (or, in a child operation, took over from its parent): never a value     *)
(* another task set.                                                        *)
C1_TaskIsolation ==
    \A t \in Tasks :
        Rendered(t) =>
            /\ out[t].fmt = "plain" =>
                   \E S \in SUBSET LiveKeys(t) : out[t].line = HistoryLine(S, t)
            /\ out[t].fmt = "json" /\ out[t].context # None =>
                   \E S \in SUBSET LiveKeys(t) :
                       out[t].context[1] = HistoryMapping(S, t)

\* T1 has rendered its own req_id while T2 holds another value for req_id in
\* the same registered cell.
C1_Witness ==
    /\ Rendered("T1") /\ out["T1"].fmt = "plain"
    /\ out["T1"].line = BaseLine \o " [req_id a1]"
    /\ lastSet["T2"]["req_id"] = Some("b1")
    /\ Resolve("T2", "req_id") = Some("b1")

(* C2: race-free first registration.  The registry holds one cell per key   *)
(* and no value is lost: a task that is not inside a call reads, for every  *)
(* key, the value it last set.                                              *)
C2_RaceFreeRegistration ==
    /\ \A k \in Keys : Cardinality({i \in 1..Len(_context) : _context[i].key = k}) <= 1
    /\ \A t \in Tasks : pc[t] = "idle" =>
           \A k \in Keys : lastSet[t][k] # None => Resolve(t, k) = lastSet[t][k]

(* C3: a render of a task shows exactly the keys whose value last set in    *)
(* that task is not empty, each once, with that value, in registration      *)
(* order.                                                                   *)
C3_RenderShowsLastSet ==
    \A t \in Tasks :
        Rendered(t) =>
            /\ out[t].fmt = "plain" => out[t].line = HistoryLine(LiveKeys(t), t)
            /\ out[t].fmt = "json" =>
                   out[t].context = IF LiveKeys(t) = {} THEN None
                                    ELSE Some(HistoryMapping(LiveKeys(t), t))

\* The Context cx had key k never been set in it, and the registry without k.
NeverSet(cx, k) == [c \in {x \in DOMAIN cx : cvarName[x] # k} |-> cx[c]]

WithoutKey(d, k) == SelectSeq(d, LAMBDA item : item.key # k)

(* C4: the empty string means no value.  Once a task has set key k to '',   *)
(* both formatters return for it what they would return had k never been    *)
(* set in the task (with k registered by another task, or not registered),  *)
(* and no line or context mapping it has rendered holds an entry for k.     *)
C4_EmptyMeansUnset ==
    \A t \in Tasks, k \in Keys :
        (pc[t] = "idle" /\ lastSet[t][k] = Some("")) =>
            /\ FormatPlain(_context, ctx[t]) = FormatPlain(_context, NeverSet(ctx[t], k))
            /\ FormatPlain(_context, ctx[t])
                   = FormatPlain(WithoutKey(_context, k), NeverSet(ctx[t], k))
            /\ FormatJSON(_context, ctx[t]) = FormatJSON(_context, NeverSet(ctx[t], k))
            /\ FormatJSON(_context, ctx[t])
                   = FormatJSON(WithoutKey(_context, k), NeverSet(ctx[t], k))
            /\ (Rendered(t) /\ out[t].fmt = "plain") =>
                   \E S \in SUBSET (LiveKeys(t) \ {k}) : out[t].line = HistoryLine(S, t)
            /\ (Rendered(t) /\ out[t].fmt = "json" /\ out[t].context # None) =>
                   k \notin DOMAIN out[t].context[1]

\* The child held a1 for req_id, set it to '', and rendered the base line.
C4_Witness ==
    /\ inherited["C1"]["req_id"] = Some("a1")
    /\ lastSet["C1"]["req_id"] = Some("")
    /\ Rendered("C1") /\ out["C1"].fmt = "plain" /\ out["C1"].line = BaseLine

(* C5: the no-context baseline.  A formatter call of a task in which every  *)
(* key is unset or empty returns the base line (plain) or a record without  *)
(* a context (structured); the structured formatter attaches a context      *)
(* exactly when some key's value in the task is not empty.                  *)
C5_NoContextBaseline ==
    \A t \in Tasks :
        Finished(t) =>
            /\ LiveKeys(t) = {} =>
                   /\ Rendered(t)
                   /\ out[t].fmt = "plain" => out[t].line = BaseLine
                   /\ out[t].fmt = "json" => out[t].context = None
            /\ (Rendered(t) /\ out[t].fmt = "json") =>
                   (out[t].context # None <=> LiveKeys(t) # {})

(* C9: inheritance with shadowing.  A started child reads what its parent   *)
(* had set when it started, and no step of a child's set_context changes    *)
(* what the parent reads for any key.                                       *)
C9_ChildShadowsParent ==
    [][\A c \in Children :
          /\ (pc[c] = "unstarted" /\ pc'[c] = "idle") =>
                 \A k \in Keys : Resolve(c, k)' = Resolve(parent'[c], k)
          /\ (pc[c] \in {"set_L23", "set_L25"} /\ pc'[c] # pc[c]) =>
                 \A k \in Keys : Resolve(parent[c], k)' = Resolve(parent[c], k)]_vars

(* C10: rendering is safe against concurrent registration.  No formatter    *)
(* call raises, whatever set_context steps of other tasks fall between the  *)
(* steps of its loop, and every key ever registered is still registered.    *)
C10_RenderNeverRaises ==
    /\ \A t \in Tasks : out[t].status # "RuntimeError"
    /\ \A c \in 1..Len(cvarName) : DictHas(_context, cvarName[c])

-----------------------------------------------------------------------------
(* The configurations the tests expect *)

expected_console_config(level) ==
    [version |-> 1,
     disable_existing_loggers |-> FALSE,
     incremental |-> FALSE,
     formatters |->
        [file |->
            ("()" :> "sprockets_logging._LogFormatter")
            @@ ("format" :> "%(asctime)s %(levelname)-8s %(name)s %(message)s")],
     handlers |->
        [console |-> [class |-> "logging.StreamHandler",
                      stream |-> "ext://sys.stdout",
                      level |-> level,
                      formatter |-> "file"]],
     root |-> [level |-> level, handlers |-> <<"console">>]]

expected_jsonscribe_config(level) ==
    [version |-> 1,
     disable_existing_loggers |-> FALSE,
     incremental |-> FALSE,
     filters |-> [defaultsetter |-> Dict1("()", "jsonscribe.AttributeSetter")],
     formatters |->
        [jsonlines |->
            ("()" :> "sprockets_logging._JSONFormatter")
            @@ ("include_fields" :> <<"name", "levelname", "asctime", "message",
                                      "context", "module", "exc_info">>)
            @@ ("use_loggly_names" :> TRUE)],
     handlers |->
        [console |-> [class |-> "logging.StreamHandler",
                      stream |-> "ext://sys.stdout",
                      filters |-> <<"defaultsetter">>,
                      formatter |-> "jsonlines"]],
     root |-> [level |-> level, handlers |-> <<"console">>]]

-----------------------------------------------------------------------------
(* What the claims about config speak of *)

Called == cfgResult.status # "none"

\* LOG_FORMAT holds a non-empty value other than 'plain' and 'json'.
InvalidLogFormat ==
    environ.LOG_FORMAT \notin {None, Some(""), Some("plain"), Some("json")}

\* The format the environment selects when LOG_FORMAT is valid.
SelectedJsonscribe ==
    IF environ.LOG_FORMAT = Some("plain") THEN FALSE
    ELSE IF environ.LOG_FORMAT = Some("json") THEN TRUE
    ELSE environ.ENVIRONMENT \in {Some("testing"), Some("staging"), Some("production")}

\* What DEBUG is to resolve to: "DEBUG", "INFO" or "error".
DebugExpect == (CHOOSE d \in DebugValues : d.raw = environ.DEBUG).expect

\* The level a returned configuration carries: on root and, in the console
\* configuration, on the handler too.
CarriesLevel(result, level) ==
    /\ result.status = "ok"
    /\ result.config[1].root.level = level
    /\ "level" \in DOMAIN result.config[1].handlers.console =>
           result.config[1].handlers.console.level = level

C7_InvalidLogFormatAlwaysFatal ==
    (Called /\ InvalidLogFormat) =>
        /\ cfgResult.status = "ValueError"
        /\ cfgResult.message = LogFormatMessage
        /\ cfgResult.config = None

(* C7 as amended: with use_jsonscribe omitted, an invalid LOG_FORMAT makes  *)
(* config fail with a ValueError and return no configuration, whatever the  *)
(* level and ENVIRONMENT; the message is the LOG_FORMAT one unless level is *)
(* omitted too and DEBUG cannot be parsed, _strtobool then raising first.   *)
C7_InvalidLogFormatFatalWhenDerived ==
    (Called /\ InvalidLogFormat /\ cfgArgs.use_jsonscribe = None) =>
        /\ cfgResult.status = "ValueError"
        /\ cfgResult.config = None
        /\ (cfgResult.message = LogFormatMessage)
               <=> ~(cfgArgs.level = None /\ DebugExpect = "error")

\* LOG_FORMAT=pretty under ENVIRONMENT=production, no argument passed.
C7_Witness ==
    /\ Called /\ cfgArgs = [level |-> None, use_jsonscribe |-> None]
    /\ environ.LOG_FORMAT = Some("pretty") /\ environ.ENVIRONMENT = Some("production")
    /\ cfgResult = ValueError(LogFormatMessage)

(* C8: level resolution.  With level omitted, DEBUG trimmed and lower-cased *)
(* decides: 1, y, yes, true give logging.DEBUG; 0, n, no, false and an      *)
(* absent or empty DEBUG give logging.INFO; any other value makes config    *)
(* fail with a ValueError and no configuration.  A level passed explicitly  *)
(* is the level of the configuration.  (A configuration is returned unless  *)
(* the format resolution fails.)                                            *)
C8_LevelResolution ==
    Called =>
        LET formatFails == cfgArgs.use_jsonscribe = None /\ InvalidLogFormat
        IN  IF cfgArgs.level # None
            THEN ~formatFails => CarriesLevel(cfgResult, cfgArgs.level[1])
            ELSE /\ DebugExpect = "error" =>
                        cfgResult.status = "ValueError" /\ cfgResult.config = None
                 /\ (DebugExpect = "DEBUG" /\ ~formatFails) =>
                        CarriesLevel(cfgResult, logging_DEBUG)
                 /\ (DebugExpect = "INFO" /\ ~formatFails) =>
                        CarriesLevel(cfgResult, logging_INFO)

\* DEBUG=' TRUE\n' has given logging.DEBUG.
C8_Witness ==
    /\ Called /\ cfgArgs.level = None
    /\ environ.DEBUG = Some(<<" ", "T", "R", "U", "E", "\n">>)
    /\ CarriesLevel(cfgResult, logging_DEBUG)

====
